---- MODULE Spec2Model ----
(***************************************************************************)
(* The retrieval-augmented cleaning pipeline of AI_Engine/llm:             *)
(* process_row_endpoint (main.py) -> process_row (cleaning.py) ->          *)
(* generate_embedding / save_embedding (embeddings.py), retrieve_similar   *)
(* (rag.py), generate_cleaning_suggestion (llm.py), _parse_suggestion      *)
(* (cleaning.py), and the two tables of models.py.                         *)
(*                                                                         *)
(* Encoding.  A Python str is a sequence of tokens, a token a tuple of     *)
(* strings: <<"{">>, <<"}">>, <<"m", key, literal>> (one "key": literal    *)
(* member of an object), <<"lit", x>> (a JSON value that is not an object),*)
(* <<"junk", x>> (prose), <<"[">>, <<"]">> (the brackets of an array),      *)
(* <<"sep">> (the "\n---\n" separator).  Python's                           *)
(* None where a str is expected is the one-token text NoneText.  A parsed  *)
(* JSON value is a record [kind, items, raw]: kind "dict" with its items   *)
(* as a set of <<key, literal>> pairs, or kind "scalar" for any value that *)
(* is not a dict; raw holds the text of a raw_response item, whose literal *)
(* is "@raw".  A row (a dict in insertion order) is a sequence of          *)
(* <<key, literal>> pairs.  tenant_id .. suggestion_json of a call are the *)
(* locals of process_row; embed_calls, embed_raised, emb_written,          *)
(* res_written, gen_calls, gen_raised, scan_raised and no_prior only       *)
(* record what the call did.  A definition introduced as a "variant" is    *)
(* the definition after it with one plausible fault, used to see that a    *)
(* property depends on the code it is about.                               *)
(***************************************************************************)
EXTENDS Integers, Sequences, FiniteSets, TLC

VARIABLES
    embeddings,   \* the tenant_embeddings table, in insertion order
    results,      \* the cleaning_results table, in insertion order
    calls,        \* one record per request slot: the locals of the handler
    requests,     \* requests accepted so far
    probe         \* the one call of retrieve_similar or _parse_suggestion
                  \* that RankSpec and NormSpec look at; unused by Spec

vars == <<embeddings, results, calls, requests, probe>>

\* ---------------------------------------------------------------- bounds
\* requests accepted in a run
MaxRequests == 2

\* the workers that serve requests concurrently
Calls == {1, 2}

\* ------------------------------------------------------------ the inputs
ValidDatasetId == "6f1c2b1e-0000-4000-8000-000000000001"

Row1 == << <<"name", "Jon">>, <<"age", "">> >>

Row2 == << <<"age", "">>, <<"name", "Jon">> >>

\* the request bodies (RowPayload) that arrive
Payloads ==
    {[tenantId |-> "t1", datasetId |-> ValidDatasetId, row |-> Row1],
     [tenantId |-> "t1", datasetId |-> ValidDatasetId, row |-> Row2],
     [tenantId |-> "t2", datasetId |-> ValidDatasetId, row |-> Row2],
     [tenantId |-> "t2", datasetId |-> "not-a-uuid", row |-> Row1]}

\* what model.encode raises: a ValueError or any other Exception
ExcTypes == {"ValueError", "RuntimeError"}

\* what session.commit() raises: the driver's ValueError for a parameter it
\* cannot bind (a NUL character in a string), or the database's error
DbExcTypes == {"ValueError", "OperationalError"}

LB == <<"{">>

RB == <<"}">>

LA == <<"[">>

RA == <<"]">>

NoneText == << <<"None">> >>

NoJson == [kind |-> "unset", items |-> {}, raw |-> <<>>]

NoResponse == [id |-> 0, status |-> "", suggestion |-> NoJson]

\* ------------------------------------------------- json.dumps, json.loads
\* json.dumps(row, indent=2): the members in the dict's own (insertion) order;
\* no sort_keys is passed.
json_dumps(row) ==
    <<LB>> \o [i \in 1..Len(row) |-> <<"m", row[i][1], row[i][2]>>] \o <<RB>>

IsMember(tok) == tok[1] = "m"

\* An object's items: for a repeated key json.loads keeps the last member.
ItemsOf(members) ==
    { <<members[i][2], members[i][3]>> : i \in
        { j \in 1..Len(members) :
            \A h \in (j+1)..Len(members) : members[h][2] # members[j][2] } }

Dict(items) == [kind |-> "dict", items |-> items, raw |-> <<>>]

Scalar == [kind |-> "scalar", items |-> {}, raw |-> <<>>]

IsObjectText(text) ==
    /\ Len(text) >= 2
    /\ text[1] = LB
    /\ text[Len(text)] = RB
    /\ \A i \in 2..(Len(text) - 1) : IsMember(text[i])

\* a JSON document that is no object: one literal, or an array that holds
\* one object
IsScalarText(text) ==
    \/ Len(text) = 1 /\ text[1][1] = "lit"
    \/ /\ Len(text) >= 4
       /\ text[1] = LA
       /\ text[Len(text)] = RA
       /\ IsObjectText(SubSeq(text, 2, Len(text) - 1))

\* json.loads(s): the value, or the exception it raises.  None is no str:
\* TypeError.  Any other text that is no JSON document: JSONDecodeError.
json_loads(text) ==
    IF text = NoneText
    THEN [exc |-> "TypeError", value |-> NoJson]
    ELSE IF IsObjectText(text)
    THEN [exc |-> "", value |-> Dict(ItemsOf(SubSeq(text, 2, Len(text) - 1)))]
    ELSE IF IsScalarText(text)
    THEN [exc |-> "", value |-> Scalar]
    ELSE [exc |-> "JSONDecodeError", value |-> NoJson]

\* str.find / str.rfind: a 0-based index, -1 when the token does not occur.
Find(text, tok) ==
    IF \E i \in 1..Len(text) : text[i] = tok
    THEN (CHOOSE i \in 1..Len(text) :
            text[i] = tok /\ \A j \in 1..(i-1) : text[j] # tok) - 1
    ELSE -1

\* variant: the first occurrence where the last is asked for
RFindFirst(text, tok) == Find(text, tok)

RFind(text, tok) ==
    IF \E i \in 1..Len(text) : text[i] = tok
    THEN (CHOOSE i \in 1..Len(text) :
            text[i] = tok /\ \A j \in (i+1)..Len(text) : text[j] # tok) - 1
    ELSE -1

\* text[start:end] for 0 <= start < end <= len(text)
Slice(text, start, end) == SubSeq(text, start + 1, end)

FallbackMessage == "Could not parse LLM response"

Fallback(text) ==
    [kind |-> "dict",
     items |-> {<<"status", "error">>, <<"message", FallbackMessage>>,
                <<"raw_response", "@raw">>},
     raw |-> text]

\* variant: no extraction of the first-{ to last-} substring
ParseSuggestionWholeTextOnly(suggestion_text) ==
    LET whole == json_loads(suggestion_text)
    IN  IF whole.exc = "" THEN [exc |-> "", value |-> whole.value]
        ELSE IF whole.exc # "JSONDecodeError" THEN [exc |-> whole.exc, value |-> NoJson]
        ELSE [exc |-> "", value |-> Fallback(suggestion_text)]

\* _parse_suggestion: only json.JSONDecodeError of the whole-text parse is
\* caught; inside the extraction every Exception is.
_parse_suggestion(suggestion_text) ==
    LET whole == json_loads(suggestion_text)
        start == Find(suggestion_text, LB)
        end   == RFind(suggestion_text, RB) + 1
        inner == json_loads(Slice(suggestion_text, start, end))
    IN  IF whole.exc = "" THEN [exc |-> "", value |-> whole.value]
        ELSE IF whole.exc # "JSONDecodeError" THEN [exc |-> whole.exc, value |-> NoJson]
        ELSE IF start >= 0 /\ end > start /\ inner.exc = ""
        THEN [exc |-> "", value |-> inner.value]
        ELSE [exc |-> "", value |-> Fallback(suggestion_text)]

\* suggestion_json.get("confidence", None): dict.get; any other value has no
\* attribute get.
HasKey(json, key) == \E it \in json.items : it[1] = key

DictGet(json, key) ==
    IF HasKey(json, key)
    THEN (CHOOSE it \in json.items : it[1] = key)[2]
    ELSE "None"

\* ------------------------------------------------------ embeddings.py, rag.py
\* model.encode: a fixed function of the text.  The stand-in has dimension 2
\* and vectors of integer norm, so that the norms below are exact.
Encode(text) ==
    IF Len(text) >= 2 /\ text[2] = <<"m", "name", "Jon">> THEN <<3, 4>> ELSE <<4, 3>>

MaxNorm == 10

SumSq(v) == IF Len(v) = 0 THEN 0 ELSE
    LET F[i \in 0..Len(v)] == IF i = 0 THEN 0 ELSE F[i-1] + v[i] * v[i]
    IN  F[Len(v)]

\* np.linalg.norm
Norm(v) == CHOOSE n \in 0..MaxNorm : n * n = SumSq(v)

Dot(v, w) == IF Len(v) = 0 THEN 0 ELSE
    LET F[i \in 0..Len(v)] == IF i = 0 THEN 0 ELSE F[i-1] + v[i] * w[i]
    IN  F[Len(v)]

\* compute_cosine_similarity: dot / ((norm1 + 1e-8) * (norm2 + 1e-8)), kept as
\* its three integers; np.dot of two lengths raises ValueError.
compute_cosine_similarity(vec1, vec2) ==
    IF Len(vec1) # Len(vec2)
    THEN [exc |-> "ValueError", dot |-> 0, n1 |-> 0, n2 |-> 0]
    ELSE [exc |-> "", dot |-> Dot(vec1, vec2), n1 |-> Norm(vec1), n2 |-> Norm(vec2)]

\* a < b for two similarities: the sign of
\* a.dot*(b.n1+e)*(b.n2+e) - b.dot*(a.n1+e)*(a.n2+e) for e = 1e-8, which for
\* integers this small is the sign of its first non-zero coefficient in e.
SimLess(a, b) ==
    LET c0 == a.dot * b.n1 * b.n2 - b.dot * a.n1 * a.n2
        c1 == a.dot * (b.n1 + b.n2) - b.dot * (a.n1 + a.n2)
        c2 == a.dot - b.dot
    IN  IF c0 # 0 THEN c0 < 0 ELSE IF c1 # 0 THEN c1 < 0 ELSE c2 < 0

\* variant: sorted ascending and then reversed, which turns the ties around
SortAscendingReversed(sims) ==
    LET Before(j, i) == SimLess(sims[i][2], sims[j][2])
                        \/ (~SimLess(sims[j][2], sims[i][2]) /\ j > i)
        Place(i) == 1 + Cardinality({j \in 1..Len(sims) : j # i /\ Before(j, i)})
    IN  [k \in 1..Len(sims) |-> sims[CHOOSE i \in 1..Len(sims) : Place(i) = k]]

\* list.sort(key=..., reverse=True): descending and stable, so the place of
\* entry i is the number of entries that go before it.
SortDescending(sims) ==
    LET Before(j, i) == SimLess(sims[i][2], sims[j][2])
                        \/ (~SimLess(sims[j][2], sims[i][2]) /\ j < i)
        Place(i) == 1 + Cardinality({j \in 1..Len(sims) : j # i /\ Before(j, i)})
    IN  [k \in 1..Len(sims) |-> sims[CHOOSE i \in 1..Len(sims) : Place(i) = k]]

\* variant: the query without its filter
ScanAllTenants(table, tenant_id) == table

\* session.query(content, embedding).filter(tenant_id == tenant_id).all()
Scan(table, tenant_id) ==
    SelectSeq(table, LAMBDA rec : rec.tenant_id = tenant_id)

\* variant: the slice stops one entry short of the end of the list
MinStopsShort(a, b) == IF a < b THEN a ELSE b - 1

Min(a, b) == IF a < b THEN a ELSE b

\* retrieve_similar with the scan done: [] for an empty set and for any
\* exception of the loop (except Exception: return []), else the contents
\* of the first top_k entries of the sorted list.
retrieve_similar(table, tenant_id, embedding, top_k) ==
    LET all_embeddings == Scan(table, tenant_id)
        similarities ==
            [i \in 1..Len(all_embeddings) |->
                <<all_embeddings[i].content,
                  compute_cosine_similarity(embedding, all_embeddings[i].embedding)>>]
        sorted == SortDescending(similarities)
    IN  IF Len(all_embeddings) = 0 THEN <<>>
        ELSE IF \E i \in 1..Len(similarities) : similarities[i][2].exc # "" THEN <<>>
        ELSE [i \in 1..Min(top_k, Len(sorted)) |-> sorted[i][1]]

TopK == 3

Sep == <<"sep">>

Placeholder == << <<"junk", "No previous examples available.">> >>

\* "\n---\n".join(context_docs)
Join(docs) ==
    IF Len(docs) = 0 THEN <<>> ELSE
    LET F[i \in 1..Len(docs)] ==
            IF i = 1 THEN docs[1] ELSE F[i-1] \o <<Sep>> \o docs[i]
    IN  F[Len(docs)]

\* context = "\n---\n".join(context_docs) if context_docs else "No previous ..."
ContextOf(context_docs) ==
    IF Len(context_docs) > 0 THEN Join(context_docs) ELSE Placeholder

\* --------------------------------------------------------------- llm.py
SuggestionText ==
    <<LB, <<"m", "field", "age">>, <<"m", "confidence", "0.9">>, RB>>

SuggestionJson == Dict({<<"field", "age">>, <<"confidence", "0.9">>})

ScalarText == << <<"lit", "[1, 2]">> >>

ProseText == << <<"junk", "no issues found">> >>

\* what response.text can be: a str of any content, or None
GenOutputs ==
    {SuggestionText, ScalarText, ProseText, NoneText}

\* the string generate_cleaning_suggestion returns from its except branch
CannedError ==
    <<LB, <<"m", "status", "error">>, <<"m", "message", "LLM API call failed">>, RB>>

CannedErrorJson ==
    Dict({<<"status", "error">>, <<"message", "LLM API call failed">>})

\* ------------------------------------------------------------ the state
IdleCall ==
    [pc |-> "Idle", tenant_id |-> "", datasetId |-> "", row |-> <<>>,
     text_representation |-> <<>>, embedding |-> <<>>, context_docs |-> <<>>,
     context |-> <<>>, suggestion_text |-> <<>>, suggestion_json |-> NoJson,
     response |-> NoResponse, http |-> 0, exc |-> "", stage |-> "",
     embed_calls |-> 0, emb_written |-> 0, res_written |-> 0,
     embed_raised |-> FALSE, gen_calls |-> 0, gen_raised |-> FALSE, scan_raised |-> FALSE, no_prior |-> FALSE]

NoProbe == [op |-> "", tenant_id |-> "", embedding |-> <<>>, top_k |-> 0,
            text |-> <<>>, exc |-> "", caught |-> "", docs |-> <<>>, json |-> NoJson]

Init ==
    /\ embeddings = <<>>
    /\ results = <<>>
    /\ calls = [p \in Calls |-> IdleCall]
    /\ requests = 0
    /\ probe = NoProbe

\* variant: the datasetId is passed on unparsed
IsUuidAcceptsAll(datasetId) == TRUE

\* UUID(payload.datasetId) raises ValueError for a string that is no UUID
IsUuid(datasetId) == datasetId = ValidDatasetId

\* process_row_endpoint's handlers: except ValueError -> 400, then
\* except Exception -> 500.  JSONDecodeError and UnicodeError are ValueErrors.
IsValueError(exc) == exc \in {"ValueError", "JSONDecodeError", "UnicodeEncodeError"}

StatusCode(exc) == IF IsValueError(exc) THEN 400 ELSE 500

\* What is left of a call once process_row is left: the payload and what
\* the call did; the locals of process_row are gone.
Left(c) ==
    [IdleCall EXCEPT !.tenant_id = c.tenant_id, !.datasetId = c.datasetId,
                     !.row = c.row, !.embed_calls = c.embed_calls,
                     !.emb_written = c.emb_written, !.res_written = c.res_written,
                     !.embed_raised = c.embed_raised,
                     !.gen_calls = c.gen_calls, !.gen_raised = c.gen_raised,
                     !.scan_raised = c.scan_raised, !.no_prior = c.no_prior]

\* An exception leaves process_row (except Exception: log, raise) and is
\* answered by the endpoint.
Raise(c, stage, exc) ==
    [Left(c) EXCEPT !.pc = "Failed", !.stage = stage, !.exc = exc,
                    !.http = StatusCode(exc)]

\* return {"id": ..., "status": ..., "suggestion": ...}, answered 200
Return(c, response) ==
    [Left(c) EXCEPT !.pc = "Done", !.http = 200, !.response = response]

\* POST /process-row with a worker that is free (idle, or done with its last
\* request, whose outcome it shows until then): dataset_id = UUID(payload.datasetId)
\* raises ValueError, answered 400, or process_row starts with its step 1,
\* text_representation = json.dumps(row, indent=2)
Request(p, tenant_id, datasetId, row) ==
    /\ calls[p].pc \in {"Idle", "Done", "Failed", "Rejected"}
    /\ requests < MaxRequests
    /\ requests' = requests + 1
    /\ calls' = [calls EXCEPT ![p] =
            LET c == [IdleCall EXCEPT !.tenant_id = tenant_id,
                                      !.datasetId = datasetId, !.row = row,
                                      !.no_prior = (Len(Scan(embeddings, tenant_id)) = 0)]
            IN  IF IsUuid(datasetId)
                THEN [c EXCEPT !.pc = "Embedding", !.text_representation = json_dumps(row)]
                ELSE [c EXCEPT !.pc = "Rejected", !.exc = "ValueError",
                               !.http = StatusCode("ValueError")]]
    /\ UNCHANGED <<embeddings, results, probe>>

\* step 2, generate_embedding returns
GenerateEmbedding(p) ==
    /\ calls[p].pc = "Embedding"
    /\ calls' = [calls EXCEPT ![p] =
            [@ EXCEPT !.pc = "Storing", !.embedding = Encode(calls[p].text_representation),
                      !.embed_calls = @ + 1]]
    /\ UNCHANGED <<embeddings, results, requests, probe>>

\* variant: the failed request is made again
GenerateEmbeddingRaisesRetries(p, exc) ==
    /\ calls[p].pc = "Embedding"
    /\ calls' = [calls EXCEPT ![p] =
            [@ EXCEPT !.embed_calls = @ + 1, !.embed_raised = TRUE]]
    /\ UNCHANGED <<embeddings, results, requests, probe>>

\* step 2, model.encode raises: logged and raised again
GenerateEmbeddingRaises(p, exc) ==
    /\ calls[p].pc = "Embedding"
    /\ calls' = [calls EXCEPT ![p] =
            Raise([@ EXCEPT !.embed_calls = @ + 1, !.embed_raised = TRUE],
                  "Embedding", exc)]
    /\ UNCHANGED <<embeddings, results, requests, probe>>

\* variant: the record is added and never committed
SaveEmbeddingNotCommitted(table, tenant_id, content, embedding) == table

\* TenantEmbedding(tenant_id, content, embedding); session.add; session.commit
save_embedding(table, tenant_id, content, embedding) ==
    Append(table, [tenant_id |-> tenant_id, content |-> content, embedding |-> embedding])

\* step 3, save_embedding returns
SaveEmbedding(p) ==
    /\ calls[p].pc = "Storing"
    /\ embeddings' = save_embedding(embeddings, calls[p].tenant_id,
                                    calls[p].text_representation, calls[p].embedding)
    /\ calls' = [calls EXCEPT ![p] =
            [@ EXCEPT !.pc = "Retrieving", !.emb_written = @ + 1]]
    /\ UNCHANGED <<results, requests, probe>>

\* variant: the failed append is logged and the pipeline goes on
SaveEmbeddingCommitRaisesDegraded(p, exc) ==
    /\ calls[p].pc = "Storing"
    /\ calls' = [calls EXCEPT ![p] = [@ EXCEPT !.pc = "Retrieving"]]
    /\ UNCHANGED <<embeddings, results, requests, probe>>

\* step 3, session.commit() raises: nothing is written, and process_row has
\* no handler around save_embedding but the outer one, which raises again
SaveEmbeddingCommitRaises(p, exc) ==
    /\ calls[p].pc = "Storing"
    /\ calls' = [calls EXCEPT ![p] = Raise(@, "Storing", exc)]
    /\ UNCHANGED <<embeddings, results, requests, probe>>

\* step 3, session.refresh() raises after the commit (the connection is lost)
SaveEmbeddingRefreshRaises(p) ==
    /\ calls[p].pc = "Storing"
    /\ embeddings' = save_embedding(embeddings, calls[p].tenant_id,
                                    calls[p].text_representation, calls[p].embedding)
    /\ calls' = [calls EXCEPT ![p] =
            Raise([@ EXCEPT !.emb_written = @ + 1], "Storing", "OperationalError")]
    /\ UNCHANGED <<results, requests, probe>>

\* step 4, retrieve_similar(tenant_id, embedding, top_k=3) and the context
RetrieveSimilar(p) ==
    /\ calls[p].pc = "Retrieving"
    /\ calls' = [calls EXCEPT ![p] =
            LET docs == retrieve_similar(embeddings, @.tenant_id, @.embedding, TopK)
            IN  [@ EXCEPT !.pc = "Generating", !.context_docs = docs,
                          !.context = ContextOf(docs)]]
    /\ UNCHANGED <<embeddings, results, requests, probe>>

\* variant: the exception of the query leaves retrieve_similar
RetrieveSimilarScanRaisesPropagates(p) ==
    /\ calls[p].pc = "Retrieving"
    /\ calls' = [calls EXCEPT ![p] =
            Raise([@ EXCEPT !.scan_raised = TRUE], "Retrieving", "OperationalError")]
    /\ UNCHANGED <<embeddings, results, requests, probe>>

\* step 4, the query raises: retrieve_similar logs it and returns []
RetrieveSimilarScanRaises(p) ==
    /\ calls[p].pc = "Retrieving"
    /\ calls' = [calls EXCEPT ![p] =
            [@ EXCEPT !.pc = "Generating", !.context_docs = <<>>,
                      !.context = ContextOf(<<>>), !.scan_raised = TRUE]]
    /\ UNCHANGED <<embeddings, results, requests, probe>>

\* step 5, generate_cleaning_suggestion returns response.text
GenerateSuggestion(p, response_text) ==
    /\ calls[p].pc = "Generating"
    /\ calls' = [calls EXCEPT ![p] =
            [@ EXCEPT !.pc = "Normalizing", !.suggestion_text = response_text,
                      !.gen_calls = @ + 1]]
    /\ UNCHANGED <<embeddings, results, requests, probe>>

\* variant: the exception of the API call is raised again
GenerateSuggestionRaisesPropagates(p) ==
    /\ calls[p].pc = "Generating"
    /\ calls' = [calls EXCEPT ![p] =
            Raise([@ EXCEPT !.gen_calls = @ + 1, !.gen_raised = TRUE],
                  "Generating", "RuntimeError")]
    /\ UNCHANGED <<embeddings, results, requests, probe>>

\* step 5, the API call raises: the except branch returns the canned string
GenerateSuggestionRaises(p) ==
    /\ calls[p].pc = "Generating"
    /\ calls' = [calls EXCEPT ![p] =
            [@ EXCEPT !.pc = "Normalizing", !.suggestion_text = CannedError,
                      !.gen_calls = @ + 1, !.gen_raised = TRUE]]
    /\ UNCHANGED <<embeddings, results, requests, probe>>

\* step 6, suggestion_json = _parse_suggestion(suggestion_text)
ParseSuggestion(p) ==
    /\ calls[p].pc = "Normalizing"
    /\ calls' = [calls EXCEPT ![p] =
            LET parsed == _parse_suggestion(@.suggestion_text)
            IN  IF parsed.exc # ""
                THEN Raise(@, "Normalizing", parsed.exc)
                ELSE [@ EXCEPT !.pc = "Persisting", !.suggestion_json = parsed.value]]
    /\ UNCHANGED <<embeddings, results, requests, probe>>

\* variant: the status follows the suggestion's own status
CleaningResultStatusFromSuggestion(id, tenant_id, dataset_id, row, suggestion_json) ==
    [id |-> id, tenant_id |-> tenant_id, dataset_id |-> dataset_id, row_data |-> row,
     ai_suggestion |-> suggestion_json,
     confidence |-> DictGet(suggestion_json, "confidence"),
     status |-> IF DictGet(suggestion_json, "status") = "error"
                THEN "error" ELSE "processed"]

\* CleaningResult(..., confidence=suggestion_json.get("confidence", None),
\* status="processed"); id is the table's autoincrement key
CleaningResult(id, tenant_id, dataset_id, row, suggestion_json) ==
    [id |-> id, tenant_id |-> tenant_id, dataset_id |-> dataset_id, row_data |-> row,
     ai_suggestion |-> suggestion_json,
     confidence |-> DictGet(suggestion_json, "confidence"),
     status |-> "processed"]

NextId(table) == Len(table) + 1

\* variant: the record is built from a slot the workers share
NewResultFromSharedSlot(c) ==
    CleaningResult(NextId(results), calls[1].tenant_id, calls[1].datasetId,
                   calls[1].row, calls[1].suggestion_json)

NewResult(c) ==
    CleaningResult(NextId(results), c.tenant_id, c.datasetId, c.row, c.suggestion_json)

\* step 7 and 8: the record is built (a suggestion that is no dict has no
\* .get: AttributeError), added, committed, refreshed and returned
PersistResult(p) ==
    /\ calls[p].pc = "Persisting"
    /\ IF calls[p].suggestion_json.kind # "dict"
       THEN /\ calls' = [calls EXCEPT ![p] = Raise(@, "Persisting", "AttributeError")]
            /\ UNCHANGED results
       ELSE /\ results' = Append(results, NewResult(calls[p]))
            /\ calls' = [calls EXCEPT ![p] =
                    Return([@ EXCEPT !.res_written = @ + 1],
                           [id |-> NewResult(calls[p]).id,
                            status |-> NewResult(calls[p]).status,
                            suggestion |-> calls[p].suggestion_json])]
    /\ UNCHANGED <<embeddings, requests, probe>>

\* step 7, session.commit() raises: no row is written
PersistCommitRaises(p, exc) ==
    /\ calls[p].pc = "Persisting"
    /\ calls[p].suggestion_json.kind = "dict"
    /\ calls' = [calls EXCEPT ![p] = Raise(@, "Persisting", exc)]
    /\ UNCHANGED <<embeddings, results, requests, probe>>

\* step 7, session.refresh() raises after the commit (the connection is
\* lost): the row is written
PersistRefreshRaises(p) ==
    /\ calls[p].pc = "Persisting"
    /\ calls[p].suggestion_json.kind = "dict"
    /\ results' = Append(results, NewResult(calls[p]))
    /\ calls' = [calls EXCEPT ![p] =
            Raise([@ EXCEPT !.res_written = @ + 1], "Persisting", "OperationalError")]
    /\ UNCHANGED <<embeddings, requests, probe>>

Next ==
    \E p \in Calls :
        \/ \E r \in Payloads : Request(p, r.tenantId, r.datasetId, r.row)
        \/ GenerateEmbedding(p)
        \/ \E e \in ExcTypes : GenerateEmbeddingRaises(p, e)
        \/ SaveEmbedding(p)
        \/ \E e \in DbExcTypes : SaveEmbeddingCommitRaises(p, e)
        \/ SaveEmbeddingRefreshRaises(p)
        \/ RetrieveSimilar(p)
        \/ RetrieveSimilarScanRaises(p)
        \/ \E out \in GenOutputs : GenerateSuggestion(p, out)
        \/ GenerateSuggestionRaises(p)
        \/ ParseSuggestion(p)
        \/ PersistResult(p)
        \/ \E e \in DbExcTypes : PersistCommitRaises(p, e)
        \/ PersistRefreshRaises(p)

Spec == Init /\ [][Next]_vars

\* ============================================================ properties
\* save_embedding has returned
PastStoring(c) == c.pc \in {"Retrieving", "Generating", "Normalizing", "Persisting", "Done"}

\* retrieve_similar has returned and process_row, with its locals, is running
PastRetrieving(c) == c.pc \in {"Generating", "Normalizing", "Persisting"}

\* C1: tenant isolation.  Every content that retrieve_similar returned to a
\* call is the content of a stored Embedding Record of the call's own tenant.
C1_TenantIsolation ==
    \A p \in Calls : \A i \in 1..Len(calls[p].context_docs) :
        \E j \in 1..Len(embeddings) :
            /\ embeddings[j].tenant_id = calls[p].tenant_id
            /\ embeddings[j].content = calls[p].context_docs[i]

\* A retrieval has returned contents while an older record of another tenant,
\* with a content the call's tenant does not hold, was in the table.
C1_Witness ==
    \E p \in Calls : \E j \in 1..Len(embeddings) :
        /\ calls[p].pc = "Generating"
        /\ Len(calls[p].context_docs) >= 1
        /\ embeddings[j].tenant_id # calls[p].tenant_id
        /\ \A k \in 1..Len(embeddings) :
              embeddings[k].tenant_id = calls[p].tenant_id
                 => (j < k /\ embeddings[k].content # embeddings[j].content)

\* C2: when the embedding collaborator raises, the call has failed at Embedding with an error answer and no
\* response body, encode was called once, and the call wrote neither table.
C2_EmbeddingFailureIsFatal ==
    \A p \in Calls :
        calls[p].embed_raised =>
            /\ calls[p].pc = "Failed"
            /\ calls[p].stage = "Embedding"
            /\ calls[p].embed_calls = 1
            /\ calls[p].http \in {400, 500}
            /\ calls[p].response = NoResponse
            /\ calls[p].res_written = 0
            /\ calls[p].emb_written = 0
            /\ calls[p].gen_calls = 0

\* The embedding request of a call has raised while a Cleaning Result of an
\* earlier call is in the table.
C2_Witness ==
    \E p \in Calls :
        /\ calls[p].pc = "Failed"
        /\ calls[p].stage = "Embedding"
        /\ Len(results) >= 1

\* C3 as stated: a failed Vector Store append never fails the row.
C3_AppendFailureDoesNotBlock ==
    \A p \in Calls : ~(calls[p].pc = "Failed" /\ calls[p].stage = "Storing")

\* C3 as amended: a failed append is fatal for the row.  No call is past
\* Storing without its Embedding Record written, and a call whose
\* save_embedding raised has failed with an error answer before retrieval,
\* generation and persistence.
C3_AppendFailureIsFatal ==
    \A p \in Calls :
        /\ PastStoring(calls[p]) => calls[p].emb_written = 1
        /\ calls[p].stage = "Storing" =>
              /\ calls[p].pc = "Failed"
              /\ calls[p].http \in {400, 500}
              /\ calls[p].context = <<>>
              /\ calls[p].gen_calls = 0
              /\ calls[p].res_written = 0

\* save_embedding's commit has raised: the call failed and wrote no record.
C3_Witness ==
    \E p \in Calls :
        /\ calls[p].pc = "Failed"
        /\ calls[p].stage = "Storing"
        /\ calls[p].emb_written = 0

\* C4 as stated: normalization never raises, whatever the generator returned.
C4_NormalizationNeverRaises ==
    \A p \in Calls : calls[p].stage # "Normalizing"

\* C5: every persisted Cleaning Result has status "processed" and so has
\* every response, whatever the suggestion says.
C5_StatusAlwaysProcessed ==
    /\ \A i \in 1..Len(results) : results[i].status = "processed"
    /\ \A p \in Calls : calls[p].pc = "Done" => calls[p].response.status = "processed"

\* A response carries a suggestion that encodes an error: the normalizer's
\* fallback object.
C5_Witness ==
    \E p \in Calls :
        /\ calls[p].pc = "Done"
        /\ calls[p].response.suggestion = Fallback(ProseText)
        /\ \E i \in 1..Len(results) : results[i].ai_suggestion = Fallback(ProseText)

\* A call of a tenant that had no Embedding Record when it arrived, with no
\* collaborator failure so far.
FirstRowAllSucceed(c) ==
    c.no_prior /\ ~c.scan_raised /\ ~c.gen_raised

\* C6 as stated: such a call hands the generator the placeholder context.
C6_FirstRowGetsPlaceholder ==
    \A p \in Calls :
        (PastRetrieving(calls[p]) /\ FirstRowAllSucceed(calls[p]))
            => calls[p].context = Placeholder

\* C6 as amended: such a call retrieves at least one content (its own record
\* is written before the scan), so the generator gets the joined contents and
\* not the placeholder; the call returns "processed" and the normalized
\* generator output.
C6_FirstRowGetsRetrievedContext ==
    \A p \in Calls :
        /\ (PastRetrieving(calls[p]) /\ FirstRowAllSucceed(calls[p])) =>
              /\ Len(calls[p].context_docs) >= 1
              /\ calls[p].context = Join(calls[p].context_docs)
              /\ calls[p].context # Placeholder
        /\ (calls[p].pc = "Persisting" /\ FirstRowAllSucceed(calls[p])) =>
              calls[p].suggestion_json = _parse_suggestion(calls[p].suggestion_text).value
        /\ (calls[p].pc = "Done" /\ FirstRowAllSucceed(calls[p])) =>
              /\ calls[p].http = 200
              /\ calls[p].response.status = "processed"
              /\ calls[p].response.suggestion.kind = "dict"
              /\ results[calls[p].response.id].ai_suggestion = calls[p].response.suggestion

\* The first row of a tenant, alone in the table, is handed to the generator
\* with its own text as the context, and the generator has answered.
C6_Witness ==
    \E p \in Calls :
        /\ calls[p].pc = "Persisting"
        /\ FirstRowAllSucceed(calls[p])
        /\ Len(Scan(embeddings, calls[p].tenant_id)) = 1
        /\ calls[p].context = calls[p].text_representation
        /\ calls[p].suggestion_json = SuggestionJson

\* C7: a request whose datasetId is no UUID is rejected with 400 before any
\* pipeline step: no embedding or generation request, no write to a table.
C7_MalformedDatasetIdRejected ==
    \A p \in Calls :
        (calls[p].pc # "Idle" /\ calls[p].datasetId # ValidDatasetId) =>
            /\ calls[p].pc = "Rejected"
            /\ calls[p].http = 400
            /\ calls[p].embed_calls = 0
            /\ calls[p].gen_calls = 0
            /\ calls[p].emb_written = 0
            /\ calls[p].res_written = 0
            /\ calls[p].response = NoResponse

\* A malformed request is rejected while the tables hold records.
C7_Witness ==
    \E p \in Calls :
        /\ calls[p].pc = "Rejected"
        /\ calls[p].datasetId = "not-a-uuid"
        /\ Len(embeddings) >= 1

\* C8 as stated: with a valid datasetId every failure of the pipeline is
\* answered with the server error.
C8_InternalFailureIsServerError ==
    \A p \in Calls :
        (calls[p].pc = "Failed" /\ calls[p].datasetId = ValidDatasetId)
            => calls[p].http = 500

\* C9 as stated: a call that returned has created exactly one Cleaning
\* Result, a call that failed has created none, and both tables only grow.
C9_OneResultPerSuccessNoneOnFailure ==
    [][ /\ \A p \in Calls :
              /\ calls'[p].pc = "Done" => calls'[p].res_written = 1
              /\ calls'[p].pc = "Failed" => calls'[p].res_written = 0
        /\ Len(results) <= Len(results')
        /\ SubSeq(results', 1, Len(results)) = results
        /\ Len(embeddings) <= Len(embeddings')
        /\ SubSeq(embeddings', 1, Len(embeddings)) = embeddings ]_vars

\* C10: a failed generator call never fails the row.  The call goes on with
\* the canned string, normalization yields the canned error object, and only
\* the result's own commit or refresh can still fail; a call that is done
\* returned that object and its Cleaning Result holds it.
C10_GeneratorFailureAbsorbed ==
    \A p \in Calls :
        calls[p].gen_raised =>
            /\ calls[p].pc \in {"Normalizing", "Persisting", "Done", "Failed"}
            /\ calls[p].pc \in {"Normalizing", "Persisting"} =>
                  calls[p].suggestion_text = CannedError
            /\ calls[p].pc = "Failed" =>
                  (calls[p].stage = "Persisting" /\ calls[p].exc \in DbExcTypes)
            /\ calls[p].pc = "Persisting" => calls[p].suggestion_json = CannedErrorJson
            /\ calls[p].pc = "Done" =>
                  /\ calls[p].response.suggestion = CannedErrorJson
                  /\ \E i \in 1..Len(results) :
                        /\ results[i].id = calls[p].response.id
                        /\ results[i].tenant_id = calls[p].tenant_id
                        /\ results[i].ai_suggestion = CannedErrorJson

\* A call whose generator raised is done with the canned error persisted.
C10_Witness ==
    \E p \in Calls :
        /\ calls[p].gen_raised
        /\ calls[p].pc = "Done"
        /\ results[calls[p].response.id].ai_suggestion = CannedErrorJson

\* the key-value pairs of a row, whatever their order
PairsOf(row) == {row[i] : i \in 1..Len(row)}

\* the stages of a call in which text_representation is set
HoldsText(c) == c.pc \in {"Embedding", "Storing", "Retrieving", "Generating",
                          "Normalizing", "Persisting"}

\* C11: the text form of a row is canonical.  Two calls whose rows hold the
\* same key-value pairs, in whatever key order, have the same
\* text_representation, the text that is embedded and stored as content.
C11_RowTextIsCanonical ==
    \A p, q \in Calls :
        (HoldsText(calls[p]) /\ HoldsText(calls[q])
         /\ PairsOf(calls[p].row) = PairsOf(calls[q].row))
            => calls[p].text_representation = calls[q].text_representation

\* ------------------------------------------- any confidence the model writes
\* a suggestion whose confidence is a number outside [0, 1]
OutOfRangeText ==
    <<LB, <<"m", "field", "age">>, <<"m", "confidence", "7.5">>, RB>>

GenOutputsAnyConfidence == GenOutputs \cup {OutOfRangeText}

\* the float json.loads makes of a number literal, in tenths
Tenths == [lit \in {"0.9", "7.5"} |-> IF lit = "0.9" THEN 9 ELSE 75]

\* the pipeline with a generator that is not held to the prompt's range
NextAnyConfidence ==
    \E p \in Calls :
        \/ \E r \in Payloads : Request(p, r.tenantId, r.datasetId, r.row)
        \/ GenerateEmbedding(p)
        \/ \E e \in ExcTypes : GenerateEmbeddingRaises(p, e)
        \/ SaveEmbedding(p)
        \/ \E e \in DbExcTypes : SaveEmbeddingCommitRaises(p, e)
        \/ SaveEmbeddingRefreshRaises(p)
        \/ RetrieveSimilar(p)
        \/ RetrieveSimilarScanRaises(p)
        \/ \E out \in GenOutputsAnyConfidence : GenerateSuggestion(p, out)
        \/ GenerateSuggestionRaises(p)
        \/ ParseSuggestion(p)
        \/ PersistResult(p)
        \/ \E e \in DbExcTypes : PersistCommitRaises(p, e)
        \/ PersistRefreshRaises(p)

SpecAnyConfidence == Init /\ [][NextAnyConfidence]_vars

\* C12: the confidence of every persisted Cleaning Result is absent or a
\* number in [0, 1], whatever the generator wrote in the confidence field.
C12_ConfidenceInUnitInterval ==
    \A i \in 1..Len(results) :
        \/ results[i].confidence = "None"
        \/ /\ results[i].confidence \in DOMAIN Tenths
           /\ 0 <= Tenths[results[i].confidence]
           /\ Tenths[results[i].confidence] <= 10

\* C13: concurrent calls do not share state.  Every call that is done
\* returned an id that no other call returned, the ids of the table are
\* distinct, and the Cleaning Result with the returned id holds the call's
\* own tenant_id, dataset_id, row and suggestion.
C13_EachCallOwnsItsResult ==
    /\ \A i, j \in 1..Len(results) : results[i].id = results[j].id => i = j
    /\ \A p, q \in Calls :
          (p # q /\ calls[p].pc = "Done" /\ calls[q].pc = "Done")
              => calls[p].response.id # calls[q].response.id
    /\ \A p \in Calls :
          calls[p].pc = "Done" =>
              \E i \in 1..Len(results) :
                  /\ results[i].id = calls[p].response.id
                  /\ results[i].tenant_id = calls[p].tenant_id
                  /\ results[i].dataset_id = calls[p].datasetId
                  /\ results[i].row_data = calls[p].row
                  /\ results[i].ai_suggestion = calls[p].response.suggestion

\* Two calls of different tenants ran interleaved and both are done: the
\* one that stored its embedding first persisted its result last.
C13_Witness ==
    /\ calls[1].pc = "Done" /\ calls[2].pc = "Done"
    /\ calls[1].tenant_id # calls[2].tenant_id
    /\ calls[1].row # calls[2].row
    /\ Len(embeddings) = 2 /\ Len(results) = 2
    /\ embeddings[1].tenant_id = results[2].tenant_id
    /\ embeddings[2].tenant_id = results[1].tenant_id
    /\ calls[1].response.suggestion # calls[2].response.suggestion

\* a failed call whose embedding append had committed: the error reached the
\* caller and the Embedding Record is in the table
FailedAfterAppendKeepsEmbedding(c) ==
    /\ c.http \in {400, 500}
    /\ c.exc # ""
    /\ \E i \in 1..Len(embeddings) :
          /\ embeddings[i].tenant_id = c.tenant_id
          /\ embeddings[i].content = json_dumps(c.row)

\* C14: the embedding append and the result persistence are two
\* transactions.  A call that failed after its embedding append committed
\* surfaced the error, its Embedding Record is still in the table, and no
\* Cleaning Result was written for its row.
C14_FailureKeepsEmbeddingAndNoResult ==
    \A p \in Calls :
        (calls[p].pc = "Failed" /\ calls[p].emb_written = 1) =>
            /\ FailedAfterAppendKeepsEmbedding(calls[p])
            /\ calls[p].res_written = 0

\* the part of C14 that does not depend on the refresh of the result
C14_FailureKeepsEmbedding ==
    \A p \in Calls :
        (calls[p].pc = "Failed" /\ calls[p].emb_written = 1) =>
            /\ FailedAfterAppendKeepsEmbedding(calls[p])
            /\ calls[p].res_written = 1 =>
                  (calls[p].stage = "Persisting" /\ calls[p].exc = "OperationalError")

\* ------------------------------------------------- retrieve_similar alone
\* rows of tenant_embeddings a scan can meet
MaxTable == 3

\* the largest top_k asked for
MaxTopK == 4

DocA == << <<"junk", "a">> >>

DocB == << <<"junk", "b">> >>

DocC == << <<"junk", "c">> >>

\* records of one embedding model (dimension 2): two of t1 with the same
\* vector, one parallel to them, one in another direction, one of t2
RankRecords ==
    {[tenant_id |-> "t1", content |-> DocA, embedding |-> <<3, 4>>],
     [tenant_id |-> "t1", content |-> DocB, embedding |-> <<3, 4>>],
     [tenant_id |-> "t1", content |-> DocC, embedding |-> <<4, 3>>],
     [tenant_id |-> "t1", content |-> DocA, embedding |-> <<6, 8>>],
     [tenant_id |-> "t2", content |-> DocB, embedding |-> <<4, 3>>]}

\* a record written under an embedding model of another dimension
LegacyRecord == [tenant_id |-> "t1", content |-> DocC, embedding |-> <<5>>]

RankQueries == {<<3, 4>>, <<4, 3>>, <<0, 0>>}

TablesOf(records) ==
    UNION {[1..n -> records] : n \in 0..MaxTable}

\* the exception the loop over the scanned rows raises, if any: np.dot of
\* two lengths raises ValueError
LoopException(table, tenant_id, embedding) ==
    IF \E i \in 1..Len(Scan(table, tenant_id)) :
          compute_cosine_similarity(embedding, Scan(table, tenant_id)[i].embedding).exc # ""
    THEN "ValueError"
    ELSE ""

\* one call retrieve_similar(tenant_id, query_embedding, top_k): what it
\* returns, what it caught and logged, and what it raised to its caller
\* (nothing: both the empty set and except Exception end in a return)
RankRetrieve(tenant_id, embedding, top_k) ==
    /\ probe = NoProbe
    /\ probe' = [NoProbe EXCEPT
            !.op = "retrieve_similar",
            !.tenant_id = tenant_id,
            !.embedding = embedding,
            !.top_k = top_k,
            !.docs = retrieve_similar(embeddings, tenant_id, embedding, top_k),
            !.caught = LoopException(embeddings, tenant_id, embedding),
            !.exc = ""]
    /\ UNCHANGED <<embeddings, results, calls, requests>>

RankInit ==
    /\ embeddings \in TablesOf(RankRecords)
    /\ results = <<>>
    /\ calls = [p \in Calls |-> IdleCall]
    /\ requests = 0
    /\ probe = NoProbe

RankNext ==
    \E t \in {"t1", "t2"}, q \in RankQueries, k \in 0..MaxTopK : RankRetrieve(t, q, k)

RankSpec == RankInit /\ [][RankNext]_vars

\* the same with tables that hold records of two embedding models
MixedInit ==
    /\ embeddings \in TablesOf(RankRecords \cup {LegacyRecord})
    /\ results = <<>>
    /\ calls = [p \in Calls |-> IdleCall]
    /\ requests = 0
    /\ probe = NoProbe

MixedSpec == MixedInit /\ [][RankNext]_vars

\* C15: when a stored vector of the tenant has another length than the
\* query vector, retrieve_similar raises a dimension-mismatch error to its
\* caller and returns neither a ranking nor an empty result.
C15_DimensionMismatchIsRejected ==
    (/\ probe.op = "retrieve_similar"
     /\ \E i \in 1..Len(embeddings) :
           /\ embeddings[i].tenant_id = probe.tenant_id
           /\ Len(embeddings[i].embedding) # Len(probe.embedding))
        => probe.exc = "DimensionMismatchError"

\* the places of the tenant's records in the table, in scan order
TenantRows(tenant_id) ==
    {i \in 1..Len(embeddings) : embeddings[i].tenant_id = tenant_id}

Count(seq, x) == Cardinality({i \in 1..Len(seq) : seq[i] = x})

\* C16: for a tenant set of size n and a top_k >= 0, retrieve_similar
\* returns exactly min(top_k, n) contents: none for an empty set, and for
\* top_k >= n the content of each of the n records once, nothing added.
C16_ReturnsMinOfTopKAndSize ==
    probe.op = "retrieve_similar" =>
        LET n == Cardinality(TenantRows(probe.tenant_id))
        IN  /\ Len(probe.docs) = (IF probe.top_k < n THEN probe.top_k ELSE n)
            /\ n = 0 => probe.docs = <<>>
            /\ probe.top_k >= n =>
                  \A doc \in {DocA, DocB, DocC} :
                      Count(probe.docs, doc) =
                          Cardinality({i \in TenantRows(probe.tenant_id) :
                                          embeddings[i].content = doc})

\* A call with top_k above the size of a tenant set of two or more records
\* returned the whole set.
C16_Witness ==
    /\ probe.op = "retrieve_similar"
    /\ Cardinality(TenantRows(probe.tenant_id)) >= 2
    /\ probe.top_k > Cardinality(TenantRows(probe.tenant_id))
    /\ Len(probe.docs) = Cardinality(TenantRows(probe.tenant_id))

\* C17: the contents come back by similarity to the query, highest first,
\* records of equal similarity in scan order, and nothing but the contents
\* of the tenant's records: the returned list is the contents of a choice
\* of records in which each goes before every later one and before every
\* record left out (higher similarity, or equal and scanned earlier).
C17_RankedBySimilarityTiesInScanOrder ==
    probe.op = "retrieve_similar" =>
        LET rows == TenantRows(probe.tenant_id)
            sim(i) == compute_cosine_similarity(probe.embedding, embeddings[i].embedding)
            GoesBefore(i, j) == \/ SimLess(sim(j), sim(i))
                                \/ (~SimLess(sim(i), sim(j)) /\ i < j)
        IN  \E f \in [1..Len(probe.docs) -> rows] :
                /\ \A k \in 1..Len(probe.docs) : probe.docs[k] = embeddings[f[k]].content
                /\ \A k, l \in 1..Len(probe.docs) : k < l => GoesBefore(f[k], f[l])
                /\ \A k \in 1..Len(probe.docs) :
                      \A m \in rows \ {f[l] : l \in 1..Len(probe.docs)} :
                          GoesBefore(f[k], m)

\* The table holds DocC, then DocA and DocB with one vector; the query is
\* that vector: DocA and DocB come first, in scan order, DocC last.
C17_Witness ==
    /\ probe.op = "retrieve_similar"
    /\ Len(embeddings) = 3
    /\ embeddings[1].content = DocC
    /\ embeddings[2].embedding = embeddings[3].embedding
    /\ probe.embedding = embeddings[2].embedding
    /\ probe.docs = <<DocA, DocB, DocC>>

\* ------------------------------------------------ _parse_suggestion alone
\* the longest generator text, in tokens
MaxTextLen == 5

CleanMember == <<"m", "status", "clean">>

CleanJson == Dict({<<"status", "clean">>})

Tokens == {LB, RB, LA, RA, CleanMember, <<"lit", "3">>, <<"junk", "Sure">>}

\* every str of up to MaxTextLen tokens
Texts == UNION {[1..n -> Tokens] : n \in 0..MaxTextLen}

NormInit ==
    /\ embeddings = <<>>
    /\ results = <<>>
    /\ calls = [p \in Calls |-> IdleCall]
    /\ requests = 0
    /\ probe \in {[NoProbe EXCEPT !.op = "called", !.text = t] : t \in Texts}

\* one call _parse_suggestion(suggestion_text): the value it returns or the
\* exception it raises
Normalize ==
    /\ probe.op = "called"
    /\ probe' = [probe EXCEPT
            !.op = "_parse_suggestion",
            !.json = _parse_suggestion(probe.text).value,
            !.exc = _parse_suggestion(probe.text).exc]
    /\ UNCHANGED <<embeddings, results, calls, requests>>

NormNext == Normalize

NormSpec == NormInit /\ [][NormNext]_vars

\* the text is a JSON document
ValidJson(text) == json_loads(text).exc = ""

\* C18: when the whole text is a JSON document the normalizer returns its
\* parse and the substring is not used; when it is not, and the substring
\* from its first "{" to its last "}" (inclusive) is a JSON document, the
\* normalizer returns the parse of that substring.
C18_SubstringParsedWholeTextWins ==
    probe.op = "_parse_suggestion" =>
        /\ ValidJson(probe.text) =>
              (probe.exc = "" /\ probe.json = json_loads(probe.text).value)
        /\ ~ValidJson(probe.text) =>
              \A i, j \in 1..Len(probe.text) :
                  (/\ probe.text[i] = LB /\ \A h \in 1..(i-1) : probe.text[h] # LB
                   /\ probe.text[j] = RB /\ \A h \in (j+1)..Len(probe.text) : probe.text[h] # RB
                   /\ i < j
                   /\ ValidJson(SubSeq(probe.text, i, j)))
                      => /\ probe.exc = ""
                         /\ probe.json = json_loads(SubSeq(probe.text, i, j)).value

\* Prose around {"status": "clean"} was normalized to {status: clean}.
C18_Witness ==
    /\ probe.op = "_parse_suggestion"
    /\ probe.text = << <<"junk", "Sure">>, LB, CleanMember, RB, <<"junk", "Sure">> >>
    /\ probe.json = CleanJson

\* C19: for a text that is no JSON document and has no "{" before a later
\* "}", or whose first-"{"-to-last-"}" substring is no JSON document, the
\* normalizer returns exactly the fallback object: status error, the fixed
\* message, and raw_response the unmodified text.
C19_FallbackKeepsRawText ==
    (/\ probe.op = "_parse_suggestion"
     /\ ~ValidJson(probe.text)
     /\ \/ ~\E i, j \in 1..Len(probe.text) :
               i < j /\ probe.text[i] = LB /\ probe.text[j] = RB
        \/ \E i, j \in 1..Len(probe.text) :
               /\ probe.text[i] = LB /\ \A h \in 1..(i-1) : probe.text[h] # LB
               /\ probe.text[j] = RB /\ \A h \in (j+1)..Len(probe.text) : probe.text[h] # RB
               /\ i < j
               /\ ~ValidJson(SubSeq(probe.text, i, j)))
        => /\ probe.exc = ""
           /\ probe.json.kind = "dict"
           /\ probe.json.items = {<<"status", "error">>,
                                  <<"message", "Could not parse LLM response">>,
                                  <<"raw_response", "@raw">>}
           /\ probe.json.raw = probe.text

\* A text whose first-"{"-to-last-"}" substring has a "}" too many came
\* back as the fallback with the text in raw_response.
C19_Witness ==
    /\ probe.op = "_parse_suggestion"
    /\ probe.text = <<LB, CleanMember, RB, RB>>
    /\ probe.json.raw = probe.text
    /\ <<"status", "error">> \in probe.json.items

\* C20: a failure inside retrieval never fails the row.  A call that is
\* retrieving goes on to the generator whatever the scan did; when the scan
\* raised, the retrieved list is empty and the context is the placeholder;
\* and a call whose scan raised fails, if it fails, in a later step.
C20_RetrievalFailureAbsorbed ==
    [][ \A p \in Calls :
            /\ calls[p].pc = "Retrieving" =>
                  /\ calls'[p].pc \in {"Retrieving", "Generating"}
                  /\ calls'[p].scan_raised =>
                        /\ calls'[p].pc = "Generating"
                        /\ calls'[p].context_docs = <<>>
                        /\ calls'[p].context = Placeholder
            /\ (calls'[p].scan_raised /\ calls'[p].pc = "Failed") =>
                  calls'[p].stage \in {"Normalizing", "Persisting"}
            /\ (calls'[p].scan_raised /\ calls'[p].pc \in {"Normalizing", "Persisting", "Done"}) =>
                  calls'[p].gen_calls = 1 ]_vars

\* A call whose scan raised is done, and its Cleaning Result is in the table.
C20_Witness ==
    \E p \in Calls :
        /\ calls[p].scan_raised
        /\ calls[p].pc = "Done"
        /\ calls[p].res_written = 1
        /\ results[calls[p].response.id].tenant_id = calls[p].tenant_id

====
